---- MODULE Spec2Model ----
(***************************************************************************)
(* The prediction pipeline of app/model_predictor.py with its collaborator *)
(* app/weather_fetcher.py: the lazily loaded global model cache, the date  *)
(* arithmetic of the two predictors and the weather fetch, run by the      *)
(* worker threads that serve the synchronous endpoints of app/main.py.     *)
(* The loaders of app/predictor.py, with a cache of their own, are a       *)
(* section of their own.                                                   *)
(*                                                                         *)
(* Python values: None is the empty tuple, a loaded object or a parsed     *)
(* number is a one-element tuple.  Probabilities and thresholds are in     *)
(* tenths, precipitation amounts in hundredths of a millimetre.            *)
(***************************************************************************)
EXTENDS Integers, Sequences, FiniteSets, TLC

VARIABLES
    fs,               \* storage: path -> content of the artifact file
    today_sydney,     \* datetime.now(sydney_tz).date()
    predictor,        \* the module globals of app/predictor.py, lines 13-16
    predictor_call,   \* history: the last call of a loader of app/predictor.py
    _rain_model, _rain_scaler, _rain_threshold,   \* module globals, lines 54-56
    _precip_model, _precip_scaler,                \* module globals, lines 58-59
    pc,               \* per thread: position in predict_* / load_*
    func,             \* per thread: the predictor the thread is running
    date_str,         \* per thread: the argument of the call
    date_obj,         \* per thread: the parsed date
    loaded,           \* per thread: the tuple being read back from the globals
    outcome,          \* per thread: how the call ended
    response,         \* per thread: what requests.get brought back
    weather_data,     \* per thread: the observation the fetch returned
    X,                \* per thread: the feature vector made of it
    probability,      \* per thread: model.predict_proba(X_scaled)[0, 1]
    precipitation_mm, \* per thread: model.predict(X_scaled)[0]
    result,           \* per thread: the dict a successful call returns
    joblib_loads,     \* history: model-file loads performed, per task
    ever_invalid,     \* history: the task's files were at some time not all valid
    served,           \* history: first complete artifact a load returned, per task
    call_clean,       \* history: the files of the call's task were valid all through it
    fail_cause,       \* history: what made the thread's load fail
    peer_failed,      \* history: another call failed while this one was running
    io_done,          \* history: storage reads and HTTP requests of the call
    calls,            \* number of calls started
    file_changes      \* number of changes made to the stored files

vars == <<fs, today_sydney, predictor, predictor_call, _rain_model, _rain_scaler, _rain_threshold,
          _precip_model, _precip_scaler, pc, func, date_str, date_obj, loaded,
          outcome, response, weather_data, X, probability, precipitation_mm, result,
          joblib_loads, ever_invalid, served, call_clean,
          fail_cause, peer_failed, io_done, calls, file_changes>>

----------------------------------------------------------------------------
(* Bounds of the model *)

MaxCalls == 2
MaxFileChanges == 1

Threads == {1, 2}

----------------------------------------------------------------------------
(* Configuration, model_predictor.py lines 36-45 *)

RAIN_MODEL_PATH == "app/models/rain_or_not/model.joblib"
RAIN_SCALER_PATH == "app/models/rain_or_not/scaler.joblib"
RAIN_THRESHOLD_PATH == "app/models/rain_or_not/threshold.txt"
PRECIP_MODEL_PATH == "app/models/precipitation_fall/model.joblib"
PRECIP_SCALER_PATH == "app/models/precipitation_fall/scaler.joblib"

RAIN_PREDICTION_DAYS == 7
PRECIPITATION_PREDICTION_DAYS == 3

RainPaths == {RAIN_MODEL_PATH, RAIN_SCALER_PATH, RAIN_THRESHOLD_PATH}
PrecipPaths == {PRECIP_MODEL_PATH, PRECIP_SCALER_PATH}
Paths == RainPaths \cup PrecipPaths
JoblibPaths == Paths \ {RAIN_THRESHOLD_PATH}

None == <<>>

----------------------------------------------------------------------------
(* Calendar dates: datetime.strptime, date + timedelta, strftime *)

IsLeap(y) == (y % 4 = 0) /\ ((y % 100 /= 0) \/ (y % 400 = 0))

DaysInMonth(y, m) ==
    IF m = 2 THEN (IF IsLeap(y) THEN 29 ELSE 28)
    ELSE IF m \in {4, 6, 9, 11} THEN 30 ELSE 31

\* value of a sequence of decimal digits
RECURSIVE DigitsValue(_)
DigitsValue(ds) ==
    IF ds = <<>> THEN 0
    ELSE 10 * DigitsValue(SubSeq(ds, 1, Len(ds) - 1)) + ds[Len(ds)]

\* A date string is its three "-"-separated fields, each a sequence of digits.
\* datetime.strptime(s, "%Y-%m-%d"): %Y is four digits, %m is 1..12 and %d is
\* 1..31 in one or two digits, and the day must exist in the month.
WellFormed(s) ==
    /\ Len(s[1]) = 4
    /\ Len(s[2]) \in {1, 2} /\ DigitsValue(s[2]) \in 1..12
    /\ Len(s[3]) \in {1, 2} /\ DigitsValue(s[3]) \in 1..31
    /\ DigitsValue(s[1]) >= 1
    /\ DigitsValue(s[3]) <= DaysInMonth(DigitsValue(s[1]), DigitsValue(s[2]))

strptime(s) ==
    [year |-> DigitsValue(s[1]), month |-> DigitsValue(s[2]), day |-> DigitsValue(s[3])]

\* date.toordinal(): days since 0001-01-01, that day being 1
DaysBeforeYear(y) == (y - 1) * 365 + (y - 1) \div 4 - (y - 1) \div 100 + (y - 1) \div 400

RECURSIVE DaysBeforeMonth(_, _)
DaysBeforeMonth(y, m) ==
    IF m = 1 THEN 0 ELSE DaysBeforeMonth(y, m - 1) + DaysInMonth(y, m - 1)

toordinal(d) == DaysBeforeYear(d.year) + DaysBeforeMonth(d.year, d.month) + d.day

\* date.fromordinal(n): the 400-, 100-, 4- and 1-year cycles of the calendar
fromordinal(n) ==
    LET n0   == n - 1
        n400 == n0 \div 146097
        r400 == n0 % 146097
        n100 == r400 \div 36524
        r100 == r400 % 36524
        n4   == r100 \div 1461
        r4   == r100 % 1461
        n1   == r4 \div 365
        y    == n400 * 400 + n100 * 100 + n4 * 4 + n1 + 1
        r    == n - DaysBeforeYear(y)
        m    == CHOOSE m \in 1..12 :
                   DaysBeforeMonth(y, m) < r /\ r <= DaysBeforeMonth(y, m) + DaysInMonth(y, m)
    IN IF n1 = 4 \/ n100 = 4
       THEN [year |-> y - 1, month |-> 12, day |-> 31]
       ELSE [year |-> y, month |-> m, day |-> r - DaysBeforeMonth(y, m)]

\* date_obj + timedelta(days=n)
AddDays(d, n) == fromordinal(toordinal(d) + n)

\* date.max: the sum date_obj + timedelta beyond it raises OverflowError
MaxDate == [year |-> 9999, month |-> 12, day |-> 31]
Overflows(d, n) == toordinal(d) + n > toordinal(MaxDate)

\* the decimal digits of n, zero-padded to at least w digits
RECURSIVE Digits(_, _)
Digits(n, w) ==
    IF n < 10 /\ w <= 1 THEN <<n>>
    ELSE Append(Digits(n \div 10, w - 1), n % 10)

\* d.strftime("%Y-%m-%d")
strftime(d) == <<Digits(d.year, 4), Digits(d.month, 2), Digits(d.day, 2)>>

----------------------------------------------------------------------------
(* Storage: what os.path.exists, joblib.load and open/read/float see *)

MISSING == <<"missing">>      \* no file at the path
CORRUPT == <<"corrupt">>      \* a file joblib.load cannot read
PICKLE  == <<"pickle">>       \* a file joblib.load reads
GARBAGE == <<"garbage">>      \* a text file float() cannot parse
Text(n) == <<"text", n>>      \* a text file holding the number n (tenths)

ThresholdTexts == {5, 11}

Contents(p) ==
    IF p = RAIN_THRESHOLD_PATH
    THEN {MISSING, GARBAGE} \cup {Text(n) : n \in ThresholdTexts}
    ELSE {MISSING, CORRUPT, PICKLE}

ValidContent(p, c) ==
    IF p = RAIN_THRESHOLD_PATH
    THEN Len(c) = 2 /\ 0 <= c[2] /\ c[2] <= 10
    ELSE c = PICKLE

FilesValid(f, paths) == \A p \in paths : ValidContent(p, f[p])

\* the deployments a process can start on: at most one file is bad
Deployments ==
    {f \in [Paths -> UNION {Contents(p) : p \in Paths}] :
        /\ \A p \in Paths : f[p] \in Contents(p)
        /\ Cardinality({p \in Paths : ~ValidContent(p, f[p])}) <= 1}

exists(p) == fs[p] /= MISSING

\* joblib.load(p) returns an object iff the file is a readable pickle
joblib_ok(p) == fs[p] = PICKLE
joblib_load(p) == <<p>>

\* open(p).read().strip() then float(): the parsed number, or an exception
float_ok(p) == fs[p] \notin {MISSING, GARBAGE}
float_of(p) == fs[p][2]

----------------------------------------------------------------------------
(* Threads and calls *)

Tasks == {"rain", "precipitation"}

TaskPaths(k) == IF k = "rain" THEN RainPaths ELSE PrecipPaths

NoTuple == [model |-> None, scaler |-> None, threshold |-> None]
NoDate == [year |-> 0, month |-> 0, day |-> 0]
NoResult == [input_date |-> <<>>, date |-> <<>>, will_rain |-> FALSE,
             start_date |-> <<>>, end_date |-> <<>>, precipitation_fall |-> <<>>]
NoIO == [storage |-> 0, loads |-> 0, http |-> 0, model_calls |-> 0, fetched |-> "no"]

Running(t) == pc[t] \notin {"idle", "done"}

Errors == {"ValueError", "FileNotFoundError", "RuntimeError", "ConnectionError",
           "AttributeError", "TypeError", "OverflowError"}

\* the artifact tuple a caller can use: nothing in it is None
Complete(k, tup) ==
    /\ tup.model /= None
    /\ tup.scaler /= None
    /\ k = "rain" => tup.threshold /= None

\* the call of thread t ends by raising the exception e
Raise(t, e) ==
    /\ pc' = [pc EXCEPT ![t] = "done"]
    /\ outcome' = [outcome EXCEPT ![t] = e]
    /\ peer_failed' = [u \in Threads |->
                          IF u /= t /\ Running(u) THEN TRUE ELSE peer_failed[u]]

\* the thread moves on inside its call
Goto(t, label) ==
    /\ pc' = [pc EXCEPT ![t] = label]
    /\ UNCHANGED <<outcome, peer_failed>>

Storage(t) == io_done' = [io_done EXCEPT ![t].storage = @ + 1]

\* load_* returns the tuple tup to predict_*, which goes on at label
ReturnTuple(t, k, tup, label) ==
    /\ loaded' = [loaded EXCEPT ![t] = tup]
    /\ served' = IF served[k] = NoTuple /\ Complete(k, tup)
                 THEN [served EXCEPT ![k] = tup] ELSE served
    /\ Goto(t, label)

Globals == <<_rain_model, _rain_scaler, _rain_threshold, _precip_model, _precip_scaler>>
RainGlobals == <<_rain_model, _rain_scaler, _rain_threshold>>
PrecipGlobals == <<_precip_model, _precip_scaler>>
CallArgs == <<func, date_str, date_obj>>
Environment == <<fs, today_sydney, predictor, predictor_call, file_changes,
                 ever_invalid, call_clean>>

Locals == <<response, weather_data, X, probability, precipitation_mm, result>>

\* what a step of a loader leaves alone besides the globals and its own bookkeeping
LoaderFrame == <<CallArgs, Locals, Environment, calls>>

----------------------------------------------------------------------------
(* load_rain_models, model_predictor.py lines 66-136.  Every read and every  *)
(* write of a module global is a step of its own: the endpoints run in the   *)
(* server's thread pool and the function takes no lock.                      *)

\* line 90: if _rain_model is not None
load_rain_90(t) ==
    /\ pc[t] = "load_rain_90"
    /\ IF _rain_model /= None
       THEN Goto(t, "load_rain_91_model")
       ELSE Goto(t, "load_rain_94")
    /\ UNCHANGED <<Globals, LoaderFrame, loaded, joblib_loads, served, fail_cause, io_done>>

\* lines 91 and 136: return _rain_model, _rain_scaler, _rain_threshold
load_rain_return_model(t) ==
    /\ pc[t] \in {"load_rain_91_model", "load_rain_136_model"}
    /\ loaded' = [loaded EXCEPT ![t].model = _rain_model]
    /\ Goto(t, IF pc[t] = "load_rain_91_model"
               THEN "load_rain_91_scaler" ELSE "load_rain_136_scaler")
    /\ UNCHANGED <<Globals, LoaderFrame, joblib_loads, served, fail_cause, io_done>>

load_rain_return_scaler(t) ==
    /\ pc[t] \in {"load_rain_91_scaler", "load_rain_136_scaler"}
    /\ loaded' = [loaded EXCEPT ![t].scaler = _rain_scaler]
    /\ Goto(t, IF pc[t] = "load_rain_91_scaler"
               THEN "load_rain_91_threshold" ELSE "load_rain_136_threshold")
    /\ UNCHANGED <<Globals, LoaderFrame, joblib_loads, served, fail_cause, io_done>>

load_rain_return_threshold(t) ==
    /\ pc[t] \in {"load_rain_91_threshold", "load_rain_136_threshold"}
    /\ ReturnTuple(t, "rain", [loaded[t] EXCEPT !.threshold = _rain_threshold],
                   "predict_rain_460")
    /\ UNCHANGED <<Globals, LoaderFrame, joblib_loads, fail_cause, io_done>>

\* lines 94-108: the three os.path.exists checks
RainExistsPath(label) ==
    IF label = "load_rain_94" THEN RAIN_MODEL_PATH
    ELSE IF label = "load_rain_99" THEN RAIN_SCALER_PATH
    ELSE RAIN_THRESHOLD_PATH

RainExistsNext(label) ==
    IF label = "load_rain_94" THEN "load_rain_99"
    ELSE IF label = "load_rain_99" THEN "load_rain_104"
    ELSE "load_rain_112"

load_rain_exists(t) ==
    /\ pc[t] \in {"load_rain_94", "load_rain_99", "load_rain_104"}
    /\ Storage(t)
    /\ IF exists(RainExistsPath(pc[t]))
       THEN /\ Goto(t, RainExistsNext(pc[t]))
            /\ UNCHANGED fail_cause
       ELSE /\ Raise(t, "FileNotFoundError")
            /\ fail_cause' = [fail_cause EXCEPT ![t] = "missing"]
    /\ UNCHANGED <<Globals, LoaderFrame, loaded, joblib_loads, served>>

\* what made a read of the file at p fail
ReadFailure(p) == IF fs[p] = MISSING THEN "missing" ELSE "corrupt"

\* line 112: _rain_model = joblib.load(RAIN_MODEL_PATH), inside the try
load_rain_112(t) ==
    /\ pc[t] = "load_rain_112"
    /\ io_done' = [io_done EXCEPT ![t].storage = @ + 1, ![t].loads = @ + 1]
    /\ IF joblib_ok(RAIN_MODEL_PATH)
       THEN /\ _rain_model' = joblib_load(RAIN_MODEL_PATH)
            /\ joblib_loads' = [joblib_loads EXCEPT !["rain"] = @ + 1]
            /\ Goto(t, "load_rain_113")
            /\ UNCHANGED fail_cause
       ELSE /\ fail_cause' = [fail_cause EXCEPT ![t] = ReadFailure(RAIN_MODEL_PATH)]
            /\ Goto(t, "load_rain_131")
            /\ UNCHANGED <<_rain_model, joblib_loads>>
    /\ UNCHANGED <<_rain_scaler, _rain_threshold, PrecipGlobals, LoaderFrame, loaded, served>>

\* line 113: _rain_scaler = joblib.load(RAIN_SCALER_PATH)
load_rain_113(t) ==
    /\ pc[t] = "load_rain_113"
    /\ Storage(t)
    /\ IF joblib_ok(RAIN_SCALER_PATH)
       THEN /\ _rain_scaler' = joblib_load(RAIN_SCALER_PATH)
            /\ Goto(t, "load_rain_116")
            /\ UNCHANGED fail_cause
       ELSE /\ fail_cause' = [fail_cause EXCEPT ![t] = ReadFailure(RAIN_SCALER_PATH)]
            /\ Goto(t, "load_rain_131")
            /\ UNCHANGED _rain_scaler
    /\ UNCHANGED <<_rain_model, _rain_threshold, PrecipGlobals, LoaderFrame, loaded,
                   joblib_loads, served>>

\* lines 116-118: _rain_threshold = float(f.read().strip())
load_rain_116(t) ==
    /\ pc[t] = "load_rain_116"
    /\ Storage(t)
    /\ IF float_ok(RAIN_THRESHOLD_PATH)
       THEN /\ _rain_threshold' = <<float_of(RAIN_THRESHOLD_PATH)>>
            /\ Goto(t, "load_rain_121")
            /\ UNCHANGED fail_cause
       ELSE /\ fail_cause' = [fail_cause EXCEPT ![t] = ReadFailure(RAIN_THRESHOLD_PATH)]
            /\ Goto(t, "load_rain_131")
            /\ UNCHANGED _rain_threshold
    /\ UNCHANGED <<_rain_model, _rain_scaler, PrecipGlobals, LoaderFrame, loaded,
                   joblib_loads, served>>

\* line 121: 0 <= _rain_threshold <= 1, on the global as it is now
ThresholdInRange(v) == 0 <= v /\ v <= 10

\* the range check stands after the try block: its ValueError is not wrapped
load_rain_121_outside_try(t) ==
    /\ pc[t] = "load_rain_121"
    /\ IF _rain_threshold = None
       THEN /\ fail_cause' = [fail_cause EXCEPT ![t] = "race"]
            /\ Raise(t, "TypeError")
       ELSE IF ThresholdInRange(_rain_threshold[1])
       THEN /\ Goto(t, "load_rain_136_model")
            /\ UNCHANGED fail_cause
       ELSE /\ fail_cause' = [fail_cause EXCEPT ![t] = "corrupt"]
            /\ Raise(t, "ValueError")
    /\ UNCHANGED <<Globals, LoaderFrame, loaded, joblib_loads, served, io_done>>

\* lines 121-122: a threshold out of range raises ValueError inside the try;
\* a global another thread has reset to None raises TypeError there
load_rain_121(t) ==
    /\ pc[t] = "load_rain_121"
    /\ IF _rain_threshold = None
       THEN /\ fail_cause' = [fail_cause EXCEPT ![t] = "race"]
            /\ Goto(t, "load_rain_131")
       ELSE IF ThresholdInRange(_rain_threshold[1])
       THEN /\ Goto(t, "load_rain_136_model")
            /\ UNCHANGED fail_cause
       ELSE /\ fail_cause' = [fail_cause EXCEPT ![t] = "corrupt"]
            /\ Goto(t, "load_rain_131")
    /\ UNCHANGED <<Globals, LoaderFrame, loaded, joblib_loads, served, io_done>>

\* the handler forgets to reset the model global
load_rain_131_keeps_model(t) ==
    /\ pc[t] = "load_rain_131"
    /\ Goto(t, "load_rain_132")
    /\ UNCHANGED <<Globals, LoaderFrame, loaded, joblib_loads, served, fail_cause, io_done>>

\* the handler resets the model global of the other task as well
load_rain_131_resets_precip(t) ==
    /\ pc[t] = "load_rain_131"
    /\ _rain_model' = None
    /\ _precip_model' = None
    /\ Goto(t, "load_rain_132")
    /\ UNCHANGED <<_rain_scaler, _rain_threshold, _precip_scaler, LoaderFrame, loaded,
                   joblib_loads, served, fail_cause, io_done>>

\* lines 129-134: except Exception: reset the globals, raise RuntimeError
load_rain_131(t) ==
    /\ pc[t] = "load_rain_131"
    /\ _rain_model' = None
    /\ Goto(t, "load_rain_132")
    /\ UNCHANGED <<_rain_scaler, _rain_threshold, PrecipGlobals, LoaderFrame, loaded,
                   joblib_loads, served, fail_cause, io_done>>

load_rain_132(t) ==
    /\ pc[t] = "load_rain_132"
    /\ _rain_scaler' = None
    /\ Goto(t, "load_rain_133")
    /\ UNCHANGED <<_rain_model, _rain_threshold, PrecipGlobals, LoaderFrame, loaded,
                   joblib_loads, served, fail_cause, io_done>>

load_rain_133(t) ==
    /\ pc[t] = "load_rain_133"
    /\ _rain_threshold' = None
    /\ Raise(t, "RuntimeError")
    /\ UNCHANGED <<_rain_model, _rain_scaler, PrecipGlobals, LoaderFrame, loaded,
                   joblib_loads, served, fail_cause, io_done>>

load_rain_models(t) ==
    \/ load_rain_90(t)
    \/ load_rain_return_model(t)
    \/ load_rain_return_scaler(t)
    \/ load_rain_return_threshold(t)
    \/ load_rain_exists(t)
    \/ load_rain_112(t)
    \/ load_rain_113(t)
    \/ load_rain_116(t)
    \/ load_rain_121(t)
    \/ load_rain_131(t)
    \/ load_rain_132(t)
    \/ load_rain_133(t)

----------------------------------------------------------------------------
(* load_precipitation_models, model_predictor.py lines 143-190 *)

\* line 160: if _precip_model is not None
load_precip_160(t) ==
    /\ pc[t] = "load_precip_160"
    /\ IF _precip_model /= None
       THEN Goto(t, "load_precip_161_model")
       ELSE Goto(t, "load_precip_164")
    /\ UNCHANGED <<Globals, LoaderFrame, loaded, joblib_loads, served, fail_cause, io_done>>

\* lines 161 and 190: return _precip_model, _precip_scaler
load_precip_return_model(t) ==
    /\ pc[t] \in {"load_precip_161_model", "load_precip_190_model"}
    /\ loaded' = [loaded EXCEPT ![t].model = _precip_model]
    /\ Goto(t, IF pc[t] = "load_precip_161_model"
               THEN "load_precip_161_scaler" ELSE "load_precip_190_scaler")
    /\ UNCHANGED <<Globals, LoaderFrame, joblib_loads, served, fail_cause, io_done>>

load_precip_return_scaler(t) ==
    /\ pc[t] \in {"load_precip_161_scaler", "load_precip_190_scaler"}
    /\ ReturnTuple(t, "precipitation", [loaded[t] EXCEPT !.scaler = _precip_scaler],
                   "predict_precipitation_538")
    /\ UNCHANGED <<Globals, LoaderFrame, joblib_loads, fail_cause, io_done>>

\* lines 164-173: the two os.path.exists checks
load_precip_exists(t) ==
    /\ pc[t] \in {"load_precip_164", "load_precip_169"}
    /\ Storage(t)
    /\ IF exists(IF pc[t] = "load_precip_164" THEN PRECIP_MODEL_PATH ELSE PRECIP_SCALER_PATH)
       THEN /\ Goto(t, IF pc[t] = "load_precip_164"
                       THEN "load_precip_169" ELSE "load_precip_177")
            /\ UNCHANGED fail_cause
       ELSE /\ Raise(t, "FileNotFoundError")
            /\ fail_cause' = [fail_cause EXCEPT ![t] = "missing"]
    /\ UNCHANGED <<Globals, LoaderFrame, loaded, joblib_loads, served>>

\* line 177: _precip_model = joblib.load(PRECIP_MODEL_PATH), inside the try
load_precip_177(t) ==
    /\ pc[t] = "load_precip_177"
    /\ io_done' = [io_done EXCEPT ![t].storage = @ + 1, ![t].loads = @ + 1]
    /\ IF joblib_ok(PRECIP_MODEL_PATH)
       THEN /\ _precip_model' = joblib_load(PRECIP_MODEL_PATH)
            /\ joblib_loads' = [joblib_loads EXCEPT !["precipitation"] = @ + 1]
            /\ Goto(t, "load_precip_178")
            /\ UNCHANGED fail_cause
       ELSE /\ fail_cause' = [fail_cause EXCEPT ![t] = ReadFailure(PRECIP_MODEL_PATH)]
            /\ Goto(t, "load_precip_186")
            /\ UNCHANGED <<_precip_model, joblib_loads>>
    /\ UNCHANGED <<RainGlobals, _precip_scaler, LoaderFrame, loaded, served>>

\* line 178: _precip_scaler = joblib.load(PRECIP_SCALER_PATH)
load_precip_178(t) ==
    /\ pc[t] = "load_precip_178"
    /\ Storage(t)
    /\ IF joblib_ok(PRECIP_SCALER_PATH)
       THEN /\ _precip_scaler' = joblib_load(PRECIP_SCALER_PATH)
            /\ Goto(t, "load_precip_190_model")
            /\ UNCHANGED fail_cause
       ELSE /\ fail_cause' = [fail_cause EXCEPT ![t] = ReadFailure(PRECIP_SCALER_PATH)]
            /\ Goto(t, "load_precip_186")
            /\ UNCHANGED _precip_scaler
    /\ UNCHANGED <<RainGlobals, _precip_model, LoaderFrame, loaded, joblib_loads, served>>

\* lines 184-188: except Exception: reset the globals, raise RuntimeError
load_precip_186(t) ==
    /\ pc[t] = "load_precip_186"
    /\ _precip_model' = None
    /\ Goto(t, "load_precip_187")
    /\ UNCHANGED <<RainGlobals, _precip_scaler, LoaderFrame, loaded, joblib_loads,
                   served, fail_cause, io_done>>

load_precip_187(t) ==
    /\ pc[t] = "load_precip_187"
    /\ _precip_scaler' = None
    /\ Raise(t, "RuntimeError")
    /\ UNCHANGED <<RainGlobals, _precip_model, LoaderFrame, loaded, joblib_loads,
                   served, fail_cause, io_done>>

load_precipitation_models(t) ==
    \/ load_precip_160(t)
    \/ load_precip_return_model(t)
    \/ load_precip_return_scaler(t)
    \/ load_precip_exists(t)
    \/ load_precip_177(t)
    \/ load_precip_178(t)
    \/ load_precip_186(t)
    \/ load_precip_187(t)

----------------------------------------------------------------------------
(* fetch_weather_for_date, weather_fetcher.py lines 41-221 *)

MeasurementKeys ==
    {"weather_code", "temperature_2m_max", "temperature_2m_min",
     "apparent_temperature_max", "apparent_temperature_min", "precipitation_sum",
     "precipitation_hours", "wind_speed_10m_max", "wind_gusts_10m_max",
     "wind_direction_10m_dominant", "shortwave_radiation_sum",
     "et0_fao_evapotranspiration", "daylight_duration", "sunshine_duration"}

\* a measured value for each key, all different, with a heavy-rain code
SampleValue(k) ==
    CASE k = "weather_code" -> 63
      [] k = "temperature_2m_max" -> 25
      [] k = "temperature_2m_min" -> 15
      [] k = "apparent_temperature_max" -> 24
      [] k = "apparent_temperature_min" -> 14
      [] k = "precipitation_sum" -> 2
      [] k = "precipitation_hours" -> 3
      [] k = "wind_speed_10m_max" -> 18
      [] k = "wind_gusts_10m_max" -> 32
      [] k = "wind_direction_10m_dominant" -> 270
      [] k = "shortwave_radiation_sum" -> 16
      [] k = "et0_fao_evapotranspiration" -> 4
      [] k = "daylight_duration" -> 43200
      [] k = "sunshine_duration" -> 28800

\* the "daily" section of a response: key -> list of values, null being None
DailyFull == [k \in MeasurementKeys \cup {"time"} |->
                 IF k = "time" THEN << <<0>> >> ELSE << <<SampleValue(k)>> >>]
DailyNulls == [k \in MeasurementKeys \cup {"time"} |->
                  IF k = "time" THEN << <<0>> >> ELSE <<None>>]
DailyEmptyLists == [k \in MeasurementKeys \cup {"time"} |-> <<>>]
DailyPartial == [k \in {"time", "weather_code", "temperature_2m_max",
                        "wind_direction_10m_dominant"} |->
                    IF k = "temperature_2m_max" THEN <<None>> ELSE << <<0>> >>]

NoDaily == [k \in {} |-> <<>>]

Response(e, st, js, hd, dl) ==
    [error |-> e, status_code |-> st, json_ok |-> js, has_daily |-> hd, daily |-> dl]

\* no request has been sent
NoResponse == Response("unsent", 0, FALSE, FALSE, NoDaily)

\* what requests.get can bring back
Responses ==
    {Response("Timeout", 0, FALSE, FALSE, NoDaily),
     Response("ConnectionError", 0, FALSE, FALSE, NoDaily),
     Response("Exception", 0, FALSE, FALSE, NoDaily),
     Response("none", 500, FALSE, FALSE, NoDaily),
     Response("none", 200, FALSE, FALSE, NoDaily),
     Response("none", 200, TRUE, FALSE, NoDaily),
     Response("none", 200, TRUE, TRUE, DailyEmptyLists),
     Response("none", 200, TRUE, TRUE, DailyNulls),
     Response("none", 200, TRUE, TRUE, DailyPartial),
     Response("none", 200, TRUE, TRUE, DailyFull)}

\* lines 204-211: the first value of every non-empty list but "time"
weather_dict(daily) ==
    [k \in {j \in DOMAIN daily : j /= "time" /\ daily[j] /= <<>>} |-> daily[k][1]]

\* whether the observation has a number for every measurement
Fetched(r) ==
    IF /\ DOMAIN weather_dict(r.daily) = MeasurementKeys
       /\ \A k \in MeasurementKeys : weather_dict(r.daily)[k] /= None
    THEN "full" ELSE "partial"

DateAfter(a, b) == toordinal(a) > toordinal(b)

\* the exception fetch_weather_for_date raises, or "none"
fetch_error(s, today, r) ==
    IF ~WellFormed(s) THEN "ValueError"                              \* lines 76-82
    ELSE IF DateAfter(strptime(s), today) THEN "ValueError"          \* lines 93-98
    ELSE IF r.error /= "none" THEN "ConnectionError"                 \* lines 138-159
    ELSE IF r.status_code /= 200 THEN "ValueError"                   \* lines 164-168
    ELSE IF ~r.json_ok THEN "ValueError"                             \* lines 173-179
    ELSE IF ~r.has_daily THEN "ValueError"                           \* lines 192-196
    ELSE IF DOMAIN weather_dict(r.daily) = {} THEN "ValueError"      \* lines 214-218
    ELSE "none"

\* a request is sent only when the date checks pass
fetch_sends(s, today) == WellFormed(s) /\ ~DateAfter(strptime(s), today)

\* a failed request is sent a second time
requests_get_calls_retrying(s, today, r) ==
    IF ~fetch_sends(s, today) THEN 0
    ELSE IF r.error /= "none" \/ r.status_code /= 200 THEN 2 ELSE 1

\* lines 138-168: the calls of requests.get in one fetch_weather_for_date;
\* neither the except clauses nor the status check send again
requests_get_calls(s, today, r) == IF fetch_sends(s, today) THEN 1 ELSE 0

----------------------------------------------------------------------------
(* prepare_rain_features and prepare_precipitation_features,                 *)
(* model_predictor.py lines 197-407.  Sines and cosines are in thousandths,  *)
(* for the angles that are multiples of 30 degrees.                          *)

SinTable == <<0, 500, 866, 1000, 866, 500, 0, -500, -866, -1000, -866, -500, 0>>
CosTable == <<1000, 866, 500, 0, -500, -866, -1000, -866, -500, 0, 500, 866, 1000>>

\* np.sin(np.radians(deg)) and np.cos(np.radians(deg)), deg in 0, 30 .. 360
sin_deg(deg) == SinTable[deg \div 30 + 1]
cos_deg(deg) == CosTable[deg \div 30 + 1]

\* weather_data.get(k, 0)
get(wd, k) == IF k \in DOMAIN wd THEN wd[k] ELSE <<0>>

\* x = weather_data.get(k, 0); if x is None: x = 0
get_or_zero(wd, k) == IF get(wd, k) = None THEN 0 ELSE get(wd, k)[1]

\* the degrees themselves stand for their sine
wind_direction_degrees(wd) == <<get_or_zero(wd, "wind_direction_10m_dominant")>>

wind_direction_sin(wd) == <<sin_deg(get_or_zero(wd, "wind_direction_10m_dominant"))>>
wind_direction_cos(wd) == <<cos_deg(get_or_zero(wd, "wind_direction_10m_dominant"))>>

\* every code from 63 to 65 counts
is_weather_code_63_to_65(wd) ==
    <<IF get_or_zero(wd, "weather_code") >= 63 /\ get_or_zero(wd, "weather_code") <= 65
      THEN 1 ELSE 0>>

is_weather_code_63_or_65(wd) ==
    <<IF get_or_zero(wd, "weather_code") = 63 \/ get_or_zero(wd, "weather_code") = 65
      THEN 1 ELSE 0>>

\* month_angle = 2 * pi * (month - 1) / 12, in degrees 30 * (month - 1)
season_sin(d) == <<sin_deg(30 * (d.month - 1))>>
season_cos(d) == <<cos_deg(30 * (d.month - 1))>>

\* daylight duration and radiation sum change places
prepare_rain_features_swapped(wd, d) ==
    <<get(wd, "temperature_2m_max"),
      get(wd, "temperature_2m_min"),
      get(wd, "apparent_temperature_max"),
      get(wd, "apparent_temperature_min"),
      get(wd, "shortwave_radiation_sum"),
      get(wd, "daylight_duration"),
      get(wd, "et0_fao_evapotranspiration"),
      get(wd, "wind_speed_10m_max"),
      get(wd, "wind_gusts_10m_max"),
      wind_direction_sin(wd),
      wind_direction_cos(wd),
      is_weather_code_63_or_65(wd),
      season_sin(d),
      season_cos(d)>>

prepare_rain_features(wd, d) ==
    <<get(wd, "temperature_2m_max"),
      get(wd, "temperature_2m_min"),
      get(wd, "apparent_temperature_max"),
      get(wd, "apparent_temperature_min"),
      get(wd, "daylight_duration"),
      get(wd, "shortwave_radiation_sum"),
      get(wd, "et0_fao_evapotranspiration"),
      get(wd, "wind_speed_10m_max"),
      get(wd, "wind_gusts_10m_max"),
      wind_direction_sin(wd),
      wind_direction_cos(wd),
      is_weather_code_63_or_65(wd),
      season_sin(d),
      season_cos(d)>>

\* the radiation sum stands where the sunshine duration belongs
prepare_precipitation_features_radiation(wd, d) ==
    <<get(wd, "precipitation_sum"),
      get(wd, "precipitation_hours"),
      get(wd, "temperature_2m_max"),
      get(wd, "temperature_2m_min"),
      get(wd, "apparent_temperature_max"),
      get(wd, "apparent_temperature_min"),
      get(wd, "shortwave_radiation_sum"),
      get(wd, "daylight_duration"),
      wind_direction_sin(wd),
      wind_direction_cos(wd),
      is_weather_code_63_or_65(wd),
      season_sin(d),
      season_cos(d)>>

prepare_precipitation_features(wd, d) ==
    <<get(wd, "precipitation_sum"),
      get(wd, "precipitation_hours"),
      get(wd, "temperature_2m_max"),
      get(wd, "temperature_2m_min"),
      get(wd, "apparent_temperature_max"),
      get(wd, "apparent_temperature_min"),
      get(wd, "sunshine_duration"),
      get(wd, "daylight_duration"),
      wind_direction_sin(wd),
      wind_direction_cos(wd),
      is_weather_code_63_or_65(wd),
      season_sin(d),
      season_cos(d)>>

\* np.array([feature_values]) holds a None: the array has dtype object and the
\* fitted scaler and model, which this module does not know, may reject it
HasNull(v) == \E i \in 1..Len(v) : v[i] = None

----------------------------------------------------------------------------
(* predict_rain, model_predictor.py lines 414-491 *)

\* what model.predict_proba(X_scaled)[0, 1] can be, in tenths
ProbValues == {0, 5, 10}

\* what model.predict(X_scaled)[0] can be, in hundredths
RawValues == {-30, 25, 524, 526}

\* the bookkeeping of a call that starts
StartCall(t, k) ==
    /\ calls < MaxCalls
    /\ calls' = calls + 1
    /\ call_clean' = [call_clean EXCEPT ![t] = FilesValid(fs, TaskPaths(k))]
    /\ fail_cause' = [fail_cause EXCEPT ![t] = "none"]
    /\ io_done' = [io_done EXCEPT ![t] = NoIO]
    /\ UNCHANGED <<fs, today_sydney, predictor, predictor_call, file_changes,
                   ever_invalid>>

\* the loader is called before the date is parsed
predict_rain_449_loads_first(t, s) ==
    /\ pc[t] = "idle"
    /\ StartCall(t, "rain")
    /\ func' = [func EXCEPT ![t] = "predict_rain"]
    /\ date_str' = [date_str EXCEPT ![t] = s]
    /\ date_obj' = [date_obj EXCEPT ![t] = IF WellFormed(s) THEN strptime(s) ELSE NoDate]
    /\ pc' = [pc EXCEPT ![t] = "load_rain_90"]
    /\ outcome' = [outcome EXCEPT ![t] = "running"]
    /\ peer_failed' = [peer_failed EXCEPT ![t] = FALSE]
    /\ UNCHANGED <<Globals, Locals, loaded, joblib_loads, served>>

\* lines 447-457: parse the date, compute the prediction date, call the loader
predict_rain_449(t, s) ==
    /\ pc[t] = "idle"
    /\ StartCall(t, "rain")
    /\ func' = [func EXCEPT ![t] = "predict_rain"]
    /\ date_str' = [date_str EXCEPT ![t] = s]
    /\ IF WellFormed(s) /\ ~Overflows(strptime(s), RAIN_PREDICTION_DAYS)
       THEN /\ date_obj' = [date_obj EXCEPT ![t] = strptime(s)]
            /\ pc' = [pc EXCEPT ![t] = "load_rain_90"]
            /\ outcome' = [outcome EXCEPT ![t] = "running"]
            /\ peer_failed' = [peer_failed EXCEPT ![t] = FALSE]
       ELSE /\ date_obj' = [date_obj EXCEPT ![t] = IF WellFormed(s) THEN strptime(s) ELSE NoDate]
            /\ pc' = [pc EXCEPT ![t] = "done"]
            /\ outcome' = [outcome EXCEPT ![t] =
                              IF WellFormed(s) THEN "OverflowError" ELSE "ValueError"]
            /\ peer_failed' = [u \in Threads |->
                                  IF u = t THEN FALSE
                                  ELSE IF Running(u) THEN TRUE ELSE peer_failed[u]]
    /\ UNCHANGED <<Globals, Locals, loaded, joblib_loads, served>>

\* line 454: prediction_date = date_obj + timedelta(days=RAIN_PREDICTION_DAYS)
\* the days are added to the day of the month, with no carry into the month
prediction_date_no_carry(d) == [d EXCEPT !.day = @ + RAIN_PREDICTION_DAYS]

prediction_date(d) == AddDays(d, RAIN_PREDICTION_DAYS)

\* the boundary is left out
will_rain_strict(p, threshold) == p > threshold

\* line 482: will_rain = bool(probability >= threshold)
will_rain(p, threshold) == p >= threshold

\* lines 460-491 with the response r of the weather source: the fetch, the
\* features, scaler.transform, model.predict_proba, the threshold and the
\* result.  Nothing here reads or writes a module global, so the rest of the
\* call is one step.
predict_rain_460_on(t, r) ==
    /\ pc[t] = "predict_rain_460"
    /\ LET err == fetch_error(date_str[t], today_sydney, r)
           wd == weather_dict(r.daily)
           features == prepare_rain_features(wd, date_obj[t])
           sent == requests_get_calls(date_str[t], today_sydney, r)
       IN IF err /= "none"
          THEN /\ Raise(t, err)
               /\ io_done' = [io_done EXCEPT ![t].http = @ + sent]
               /\ response' = [response EXCEPT ![t] = IF sent = 1 THEN r ELSE @]
               /\ UNCHANGED <<weather_data, X, probability, precipitation_mm, result>>
          ELSE /\ response' = [response EXCEPT ![t] = r]
               /\ weather_data' = [weather_data EXCEPT ![t] = wd]
               /\ X' = [X EXCEPT ![t] = features]
               /\ UNCHANGED precipitation_mm
               /\ IF loaded[t].scaler = None
                  THEN /\ Raise(t, "AttributeError")
                       /\ io_done' = [io_done EXCEPT ![t].http = @ + sent,
                                                     ![t].fetched = Fetched(r)]
                       /\ UNCHANGED <<probability, result>>
                  ELSE /\ io_done' = [io_done EXCEPT ![t].http = @ + sent,
                                                     ![t].fetched = Fetched(r),
                                                     ![t].model_calls = @ + 1]
                       /\ \/ /\ HasNull(features)
                             /\ Raise(t, "ValueError")
                             /\ UNCHANGED <<probability, result>>
                          \/ /\ loaded[t].model = None
                             /\ Raise(t, "AttributeError")
                             /\ UNCHANGED <<probability, result>>
                          \/ /\ loaded[t].model /= None
                             /\ loaded[t].threshold = None
                             /\ \E p \in ProbValues :
                                   probability' = [probability EXCEPT ![t] = <<p>>]
                             /\ Raise(t, "TypeError")
                             /\ UNCHANGED result
                          \/ /\ loaded[t].model /= None
                             /\ loaded[t].threshold /= None
                             /\ \E p \in ProbValues :
                                   /\ probability' = [probability EXCEPT ![t] = <<p>>]
                                   /\ result' = [result EXCEPT ![t] =
                                        [NoResult EXCEPT
                                           !.input_date = date_str[t],
                                           !.date = strftime(prediction_date(date_obj[t])),
                                           !.will_rain =
                                               will_rain(p, loaded[t].threshold[1])]]
                             /\ pc' = [pc EXCEPT ![t] = "done"]
                             /\ outcome' = [outcome EXCEPT ![t] = "returned"]
                             /\ UNCHANGED peer_failed
    /\ UNCHANGED <<Globals, CallArgs, Environment, calls, loaded,
                   joblib_loads, served, fail_cause>>

predict_rain_460(t) == \E r \in Responses : predict_rain_460_on(t, r)

predict_rain(t) ==
    \/ load_rain_models(t)
    \/ predict_rain_460(t)

----------------------------------------------------------------------------
(* predict_precipitation, model_predictor.py lines 498-564 *)

\* the digits after the first are cut off
format_1f_truncating(h) ==
    LET a == IF h < 0 THEN -h ELSE h
    IN <<IF h < 0 THEN "-" ELSE "", Digits(a \div 100, 1), <<(a \div 10) % 10>> >>

\* f"{x:.1f}" of an amount of h hundredths: the sign, the digits of the whole
\* part and the one digit after the point, the nearest tenth being taken.
\* The ties 0.25 and 0.75 are exact in binary and go to the even digit;
\* RawValues holds no other tie.
format_1f(h) ==
    LET a == IF h < 0 THEN -h ELSE h
        r == a % 10
        tenths == IF r < 5 THEN a \div 10
                  ELSE IF r > 5 THEN a \div 10 + 1
                  ELSE IF (a \div 10) % 2 = 0 THEN a \div 10 ELSE a \div 10 + 1
    IN <<IF h < 0 THEN "-" ELSE "", Digits(tenths \div 10, 1), <<tenths % 10>> >>

\* lines 531-532
start_date(d) == AddDays(d, 1)

\* the window length is counted from the start date, not from the input date
end_date_from_start(d) == AddDays(start_date(d), PRECIPITATION_PREDICTION_DAYS)

end_date(d) == AddDays(d, PRECIPITATION_PREDICTION_DAYS)

\* the raw output goes into the result as it is
clamp_none(raw) == raw

\* line 553: max(0.0, float(precipitation_mm))
clamp(raw) == IF raw > 0 THEN raw ELSE 0

\* lines 524-535
predict_precipitation_526(t, s) ==
    /\ pc[t] = "idle"
    /\ StartCall(t, "precipitation")
    /\ func' = [func EXCEPT ![t] = "predict_precipitation"]
    /\ date_str' = [date_str EXCEPT ![t] = s]
    /\ IF WellFormed(s) /\ ~Overflows(strptime(s), PRECIPITATION_PREDICTION_DAYS)
       THEN /\ date_obj' = [date_obj EXCEPT ![t] = strptime(s)]
            /\ pc' = [pc EXCEPT ![t] = "load_precip_160"]
            /\ outcome' = [outcome EXCEPT ![t] = "running"]
            /\ peer_failed' = [peer_failed EXCEPT ![t] = FALSE]
       ELSE /\ date_obj' = [date_obj EXCEPT ![t] = IF WellFormed(s) THEN strptime(s) ELSE NoDate]
            /\ pc' = [pc EXCEPT ![t] = "done"]
            /\ outcome' = [outcome EXCEPT ![t] =
                              IF WellFormed(s) THEN "OverflowError" ELSE "ValueError"]
            /\ peer_failed' = [u \in Threads |->
                                  IF u = t THEN FALSE
                                  ELSE IF Running(u) THEN TRUE ELSE peer_failed[u]]
    /\ UNCHANGED <<Globals, Locals, loaded, joblib_loads, served>>

\* lines 538-564 with the response r of the weather source: the fetch, the
\* features, scaler.transform, model.predict, the clamp and the result, one
\* step as in predict_rain
predict_precipitation_538_on(t, r) ==
    /\ pc[t] = "predict_precipitation_538"
    /\ LET err == fetch_error(date_str[t], today_sydney, r)
           wd == weather_dict(r.daily)
           features == prepare_precipitation_features(wd, date_obj[t])
           sent == requests_get_calls(date_str[t], today_sydney, r)
       IN IF err /= "none"
          THEN /\ Raise(t, err)
               /\ io_done' = [io_done EXCEPT ![t].http = @ + sent]
               /\ response' = [response EXCEPT ![t] = IF sent = 1 THEN r ELSE @]
               /\ UNCHANGED <<weather_data, X, probability, precipitation_mm, result>>
          ELSE /\ response' = [response EXCEPT ![t] = r]
               /\ weather_data' = [weather_data EXCEPT ![t] = wd]
               /\ X' = [X EXCEPT ![t] = features]
               /\ UNCHANGED probability
               /\ IF loaded[t].scaler = None
                  THEN /\ Raise(t, "AttributeError")
                       /\ io_done' = [io_done EXCEPT ![t].http = @ + sent,
                                                     ![t].fetched = Fetched(r)]
                       /\ UNCHANGED <<precipitation_mm, result>>
                  ELSE /\ io_done' = [io_done EXCEPT ![t].http = @ + sent,
                                                     ![t].fetched = Fetched(r),
                                                     ![t].model_calls = @ + 1]
                       /\ \/ /\ HasNull(features)
                             /\ Raise(t, "ValueError")
                             /\ UNCHANGED <<precipitation_mm, result>>
                          \/ /\ loaded[t].model = None
                             /\ Raise(t, "AttributeError")
                             /\ UNCHANGED <<precipitation_mm, result>>
                          \/ /\ loaded[t].model /= None
                             /\ \E raw \in RawValues :
                                   /\ precipitation_mm' =
                                          [precipitation_mm EXCEPT ![t] = <<raw>>]
                                   /\ result' = [result EXCEPT ![t] =
                                        [NoResult EXCEPT
                                           !.input_date = date_str[t],
                                           !.start_date = strftime(start_date(date_obj[t])),
                                           !.end_date = strftime(end_date(date_obj[t])),
                                           !.precipitation_fall = format_1f(clamp(raw))]]
                             /\ pc' = [pc EXCEPT ![t] = "done"]
                             /\ outcome' = [outcome EXCEPT ![t] = "returned"]
                             /\ UNCHANGED peer_failed
    /\ UNCHANGED <<Globals, CallArgs, Environment, calls, loaded,
                   joblib_loads, served, fail_cause>>

predict_precipitation_538(t) == \E r \in Responses : predict_precipitation_538_on(t, r)

predict_precipitation(t) ==
    \/ load_precipitation_models(t)
    \/ predict_precipitation_538(t)

----------------------------------------------------------------------------
(* The endpoints of main.py hand each request to a thread of the pool; the   *)
(* artifact files are changed by whoever deploys the models.                 *)

\* the caller has the result or the exception; the thread is free again
Return(t) ==
    /\ pc[t] = "done"
    /\ pc' = [pc EXCEPT ![t] = "idle"]
    /\ func' = [func EXCEPT ![t] = "none"]
    /\ date_str' = [date_str EXCEPT ![t] = <<>>]
    /\ date_obj' = [date_obj EXCEPT ![t] = NoDate]
    /\ loaded' = [loaded EXCEPT ![t] = NoTuple]
    /\ response' = [response EXCEPT ![t] = NoResponse]
    /\ weather_data' = [weather_data EXCEPT ![t] = NoDaily]
    /\ X' = [X EXCEPT ![t] = <<>>]
    /\ probability' = [probability EXCEPT ![t] = None]
    /\ precipitation_mm' = [precipitation_mm EXCEPT ![t] = None]
    /\ result' = [result EXCEPT ![t] = NoResult]
    /\ outcome' = [outcome EXCEPT ![t] = "none"]
    /\ call_clean' = [call_clean EXCEPT ![t] = TRUE]
    /\ fail_cause' = [fail_cause EXCEPT ![t] = "none"]
    /\ peer_failed' = [peer_failed EXCEPT ![t] = FALSE]
    /\ io_done' = [io_done EXCEPT ![t] = NoIO]
    /\ UNCHANGED <<Globals, fs, today_sydney, predictor, predictor_call,
                   file_changes, ever_invalid, joblib_loads, served, calls>>

TaskOf(f) == IF f = "predict_rain" THEN "rain" ELSE "precipitation"

\* a file is written, replaced or removed at p
ChangeFile(p, c) ==
    /\ file_changes < MaxFileChanges
    /\ c /= fs[p]
    /\ fs' = [fs EXCEPT ![p] = c]
    /\ file_changes' = file_changes + 1
    /\ ever_invalid' = [k \in Tasks |-> ever_invalid[k] \/ ~FilesValid(fs', TaskPaths(k))]
    /\ call_clean' = [t \in Threads |->
                         IF Running(t) THEN call_clean[t] /\ FilesValid(fs', TaskPaths(TaskOf(func[t])))
                         ELSE call_clean[t]]
    /\ UNCHANGED <<Globals, CallArgs, Locals, today_sydney, predictor,
                   predictor_call, pc, loaded, outcome, joblib_loads, served,
                   fail_cause, peer_failed, io_done, calls>>

\* a date string with the month and the day written in at least wm and wd digits
DateString(y, m, d, wm, wd) == <<Digits(y, 4), Digits(m, wm), Digits(d, wd)>>

Today == [year |-> 2024, month |-> 9, day |-> 20]

\* a past date and a date that does not exist
ConcurrentDates == {DateString(2024, 9, 15, 2, 2), DateString(2024, 2, 30, 2, 2)}

\* the same, and a date after today
SequentialDates == ConcurrentDates \cup {DateString(2024, 12, 31, 2, 2)}

\* the pool hands a request to its first free thread
FirstFree(t) == pc[t] = "idle" /\ \A u \in Threads : u < t => pc[u] /= "idle"

\* predictor.py lines 13-16: the module's four globals, all None
PredictorGlobals ==
    [_rain_model |-> None, _rain_preprocessor |-> None,
     _precip_model |-> None, _precip_preprocessor |-> None]

\* no loader of predictor.py has been called
NoPredictorCall == [func |-> "none", outcome |-> "none", model |-> None, preprocessor |-> None]

\* the process has just imported the modules, on the files fs
Start ==
    /\ today_sydney = Today
    /\ predictor = PredictorGlobals
    /\ predictor_call = NoPredictorCall
    /\ _rain_model = None
    /\ _rain_scaler = None
    /\ _rain_threshold = None
    /\ _precip_model = None
    /\ _precip_scaler = None
    /\ pc = [t \in Threads |-> "idle"]
    /\ func = [t \in Threads |-> "none"]
    /\ date_str = [t \in Threads |-> <<>>]
    /\ date_obj = [t \in Threads |-> NoDate]
    /\ loaded = [t \in Threads |-> NoTuple]
    /\ outcome = [t \in Threads |-> "none"]
    /\ response = [t \in Threads |-> NoResponse]
    /\ weather_data = [t \in Threads |-> NoDaily]
    /\ X = [t \in Threads |-> <<>>]
    /\ probability = [t \in Threads |-> None]
    /\ precipitation_mm = [t \in Threads |-> None]
    /\ result = [t \in Threads |-> NoResult]
    /\ joblib_loads = [k \in Tasks |-> 0]
    /\ ever_invalid = [k \in Tasks |-> ~FilesValid(fs, TaskPaths(k))]
    /\ served = [k \in Tasks |-> NoTuple]
    /\ call_clean = [t \in Threads |-> TRUE]
    /\ fail_cause = [t \in Threads |-> "none"]
    /\ peer_failed = [t \in Threads |-> FALSE]
    /\ io_done = [t \in Threads |-> NoIO]
    /\ calls = 0
    /\ file_changes = 0

Init == fs \in Deployments /\ Start

\* requests are served concurrently and the files may change at any time
Next ==
    \/ \E t \in Threads, s \in ConcurrentDates : FirstFree(t) /\ predict_rain_449(t, s)
    \/ \E t \in Threads, s \in ConcurrentDates :
          FirstFree(t) /\ predict_precipitation_526(t, s)
    \/ \E t \in Threads : predict_rain(t)
    \/ \E t \in Threads : predict_precipitation(t)
    \/ \E t \in Threads : Return(t)
    \/ \E p \in Paths : \E c \in Contents(p) : ChangeFile(p, c)

Spec == Init /\ [][Next]_vars

\* no call is running
Quiet == \A t \in Threads : pc[t] = "idle"

\* requests are served one after the other and the files change between calls
NextSeq ==
    \/ \E t \in Threads, s \in SequentialDates :
          Quiet /\ FirstFree(t) /\ predict_rain_449(t, s)
    \/ \E t \in Threads, s \in SequentialDates :
          Quiet /\ FirstFree(t) /\ predict_precipitation_526(t, s)
    \/ \E t \in Threads : predict_rain(t)
    \/ \E t \in Threads : predict_precipitation(t)
    \/ \E t \in Threads : Return(t)
    \/ \E p \in Paths : \E c \in Contents(p) : Quiet /\ ChangeFile(p, c)

SpecSeq == Init /\ [][NextSeq]_vars

----------------------------------------------------------------------------
(* The date arithmetic of the predictors, over every date string of a few   *)
(* years: one request at a time, on a valid deployment.                      *)

DateYears == {1900, 2000, 2023, 2024, 9999}

\* the first days, the middle, the day of Today and the last days of a month,
\* and days no month has
DateDays == {0, 1, 2, 15, 20} \cup 22..32

\* every month 0..13 with those days, each written with and without padding
AllDates ==
    {DateString(y, m, d, w, w) : y \in DateYears, m \in 0..13, d \in DateDays, w \in {1, 2}}

ValidDeployment ==
    [p \in Paths |-> IF p = RAIN_THRESHOLD_PATH THEN Text(5) ELSE PICKLE]

\* a valid deployment, one with a bad rain artifact, one with a bad precipitation one
DateDeployments ==
    {ValidDeployment,
     [ValidDeployment EXCEPT ![RAIN_THRESHOLD_PATH] = GARBAGE],
     [ValidDeployment EXCEPT ![PRECIP_SCALER_PATH] = CORRUPT]}

InitDates == Init /\ fs \in DateDeployments

\* one request at a time and no change of the files
NextDates ==
    \/ Quiet /\ \E s \in AllDates : predict_rain_449(1, s)
    \/ Quiet /\ \E s \in AllDates : predict_precipitation_526(1, s)
    \/ predict_rain(1)
    \/ predict_precipitation(1)
    \/ Return(1)

SpecDates == InitDates /\ [][NextDates]_vars

----------------------------------------------------------------------------
(* The model cache under concurrent requests *)

\* the cache of a task as load_* would return it
CacheTuple(k) ==
    IF k = "rain"
    THEN [model |-> _rain_model, scaler |-> _rain_scaler, threshold |-> _rain_threshold]
    ELSE [model |-> _precip_model, scaler |-> _precip_scaler, threshold |-> None]

\* load_* has just returned to the predictor of thread t
LoadReturned(t) == pc[t] \in {"predict_rain_460", "predict_precipitation_538"}

\* C1: with the artifact files of a task present and valid all along, its
\* model file is loaded from storage at most once, whatever the interleaving
\* of the callers.
C1_AtMostOneLoad ==
    \A k \in Tasks : ~ever_invalid[k] => joblib_loads[k] <= 1

\* C2: a tuple returned by load_rain_models has model, scaler and threshold
\* set, and one returned by load_precipitation_models has model and scaler
\* set, also while another caller is loading.
C2_NoPartialTuple ==
    \A t \in Threads : LoadReturned(t) => Complete(TaskOf(func[t]), loaded[t])

\* C3: once a load has returned an artifact, the globals of that task hold
\* that artifact in every later state.
C3_PermanentlyCached ==
    \A k \in Tasks : served[k] /= NoTuple => CacheTuple(k) = served[k]

----------------------------------------------------------------------------
(* Load failures *)

LoadErrors == {"FileNotFoundError", "RuntimeError"}

CacheEmpty(k) == CacheTuple(k) = NoTuple

C5_ThresholdInRange ==
    \A t \in Threads :
        (pc[t] = "predict_rain_460" /\ loaded[t].threshold /= None)
            => ThresholdInRange(loaded[t].threshold[1])

\* the call of thread t has a good date, good files and a good fetch
GoodCall(t) ==
    /\ WellFormed(date_str[t])
    /\ ~DateAfter(strptime(date_str[t]), today_sydney)
    /\ call_clean[t]
    /\ io_done[t].fetched = "full"

\* a call of the same function, running beside that of t, has failed in its load
LoadFailedBeside(t) ==
    /\ peer_failed[t]
    /\ \E u \in Threads \ {t} :
          /\ pc[u] = "done"
          /\ func[u] = func[t]
          /\ outcome[u] = "RuntimeError"

\* C6: a call with a good date, good artifact files and a good fetch returns
\* a result also when a call running at the same time has failed, the
\* failure being one of the artifact load.
C6_FailureIsolated ==
    \A t \in Threads :
        (pc[t] = "done" /\ LoadFailedBeside(t) /\ GoodCall(t)) => outcome[t] = "returned"

\* the load error the files of the call's task call for
ExpectedLoadError(t) ==
    LET paths == TaskPaths(TaskOf(func[t]))
    IN IF io_done[t].storage = 0 THEN "none"
       ELSE IF \E p \in paths : fs[p] = MISSING THEN "FileNotFoundError"
       ELSE IF ~FilesValid(fs, paths) THEN "RuntimeError"
       ELSE "none"

ReportedLoadError(t) == IF outcome[t] \in LoadErrors THEN outcome[t] ELSE "none"

RainLoaderLabels ==
    {"load_rain_90", "load_rain_91_model", "load_rain_91_scaler", "load_rain_91_threshold",
     "load_rain_94", "load_rain_99", "load_rain_104", "load_rain_112", "load_rain_113",
     "load_rain_116", "load_rain_121", "load_rain_131", "load_rain_132", "load_rain_133",
     "load_rain_136_model", "load_rain_136_scaler", "load_rain_136_threshold"}

PrecipLoaderLabels ==
    {"load_precip_160", "load_precip_161_model", "load_precip_161_scaler",
     "load_precip_164", "load_precip_169", "load_precip_177", "load_precip_178",
     "load_precip_186", "load_precip_187", "load_precip_190_model",
     "load_precip_190_scaler"}

\* C8: a step of the loader of one task, in a load that succeeds or fails,
\* leaves the globals of the other task as they are.
C8_TaskIsolation ==
    [][\A t \in Threads :
          /\ (pc[t] \in RainLoaderLabels /\ pc'[t] /= pc[t]) =>
                (_precip_model' = _precip_model /\ _precip_scaler' = _precip_scaler)
          /\ (pc[t] \in PrecipLoaderLabels /\ pc'[t] /= pc[t]) =>
                /\ _rain_model' = _rain_model
                /\ _rain_scaler' = _rain_scaler
                /\ _rain_threshold' = _rain_threshold]_vars

\* a rain load has failed and the precipitation artifact is still cached
C8_RainFailsPrecipCached ==
    \E t \in Threads :
        /\ pc[t] = "done"
        /\ func[t] = "predict_rain"
        /\ outcome[t] = "RuntimeError"
        /\ Complete("precipitation", CacheTuple("precipitation"))

----------------------------------------------------------------------------
(* The dates of the results *)

\* the calendar day after d, by the rules of the Gregorian calendar
NextDay(d) ==
    IF d.day < DaysInMonth(d.year, d.month) THEN [d EXCEPT !.day = @ + 1]
    ELSE IF d.month < 12 THEN [year |-> d.year, month |-> d.month + 1, day |-> 1]
    ELSE [year |-> d.year + 1, month |-> 1, day |-> 1]

RECURSIVE DaysLater(_, _)
DaysLater(d, n) == IF n = 0 THEN d ELSE DaysLater(NextDay(d), n - 1)

Returned(t, f) == pc[t] = "done" /\ outcome[t] = "returned" /\ func[t] = f

\* C9: the date in a result of predict_rain is the seventh calendar day
\* after the input date, written YYYY-MM-DD; 2024-09-15 gives 2024-09-22.
C9_RainDate ==
    \A t \in Threads :
        Returned(t, "predict_rain") =>
            /\ result[t].date = strftime(DaysLater(strptime(date_str[t]), 7))
            /\ date_str[t] = DateString(2024, 9, 15, 2, 2)
                  => result[t].date = DateString(2024, 9, 22, 2, 2)

\* a result whose seven days run over the end of a year
C9_OverYearEnd ==
    \E t \in Threads :
        /\ Returned(t, "predict_rain")
        /\ date_str[t] = DateString(2023, 12, 28, 2, 2)
        /\ result[t].date = DateString(2024, 1, 4, 2, 2)

\* C10: in a result of predict_precipitation the start date is the day after
\* the input date and the end date the third day after it, so that the
\* window, both ends counted, has three days.
C10_PrecipitationWindow ==
    \A t \in Threads :
        Returned(t, "predict_precipitation") =>
            LET d == strptime(date_str[t])
            IN /\ result[t].start_date = strftime(NextDay(d))
               /\ result[t].end_date = strftime(NextDay(NextDay(NextDay(d))))
               /\ toordinal(strptime(result[t].end_date))
                    - toordinal(strptime(result[t].start_date)) + 1 = 3

\* a window that runs over the leap day into March
C10_OverLeapDay ==
    \E t \in Threads :
        /\ Returned(t, "predict_precipitation")
        /\ date_str[t] = DateString(2024, 2, 28, 2, 2)
        /\ result[t].start_date = DateString(2024, 2, 29, 2, 2)
        /\ result[t].end_date = DateString(2024, 3, 2, 2, 2)

----------------------------------------------------------------------------
(* The encoders and the post-processing of the model outputs, over many     *)
(* observations: one request at a time, a date in every month.              *)

EncodeDates ==
    {DateString(2024, m, 15, 2, 2) : m \in 1..9} \cup
    {DateString(2023, m, 15, 2, 2) : m \in 10..12}

\* what the source can hold for one measurement of the day: a number, null, no value
WeatherCodeLists == {<< <<63>> >>, << <<65>> >>, << <<64>> >>, << <<61>> >>, <<None>>, <<>>}
WindDirectionLists == {<< <<0>> >>, << <<360>> >>, << <<270>> >>, <<None>>, <<>>}

Observations ==
    {Response("none", 200, TRUE, TRUE,
              [DailyFull EXCEPT !["weather_code"] = c,
                                !["wind_direction_10m_dominant"] = w]) :
        c \in WeatherCodeLists, w \in WindDirectionLists}
    \cup {Response("none", 200, TRUE, TRUE, DailyNulls),
          Response("none", 200, TRUE, TRUE, DailyPartial),
          Response("Timeout", 0, FALSE, FALSE, NoDaily)}

\* valid deployments with the threshold at the ends and in the middle of its
\* range, and the two deployments with a bad artifact
EncodeDeployments ==
    {[ValidDeployment EXCEPT ![RAIN_THRESHOLD_PATH] = Text(n)] : n \in {0, 5, 10}}
    \cup DateDeployments

InitEncode == fs \in EncodeDeployments /\ Start

NextEncode ==
    \/ Quiet /\ \E s \in EncodeDates : predict_rain_449(1, s)
    \/ Quiet /\ \E s \in EncodeDates : predict_precipitation_526(1, s)
    \/ load_rain_models(1)
    \/ load_precipitation_models(1)
    \/ \E r \in Observations : predict_rain_460_on(1, r)
    \/ \E r \in Observations : predict_precipitation_538_on(1, r)
    \/ Return(1)

SpecEncode == InitEncode /\ [][NextEncode]_vars

\* C11: in every result of predict_rain, will_rain is true exactly when the
\* probability the model gave is at least the threshold the loader returned;
\* a probability equal to the threshold gives true.
C11_InclusiveThreshold ==
    \A t \in Threads :
        Returned(t, "predict_rain") =>
            /\ result[t].will_rain <=> probability[t][1] >= loaded[t].threshold[1]
            /\ probability[t] = loaded[t].threshold => result[t].will_rain

\* a result whose probability equals the threshold 0.5
C11_AtTheBoundary ==
    \E t \in Threads :
        /\ Returned(t, "predict_rain")
        /\ probability[t] = <<5>>
        /\ loaded[t].threshold = <<5>>
        /\ result[t].will_rain

\* C12: the amount in a result of predict_precipitation carries no minus
\* sign; a raw model output below zero gives "0.0"; and a call whose model
\* gave an output, negative or not, returns a result.
C12_Clamped ==
    \A t \in Threads :
        /\ Returned(t, "predict_precipitation") =>
              /\ result[t].precipitation_fall[1] = ""
              /\ precipitation_mm[t][1] < 0 =>
                    result[t].precipitation_fall = <<"", <<0>>, <<0>> >>
        /\ (pc[t] = "done" /\ precipitation_mm[t] /= None) => outcome[t] = "returned"

\* the raw output -0.3 has come out as "0.0"
C12_NegativeClipped ==
    \E t \in Threads :
        /\ Returned(t, "predict_precipitation")
        /\ precipitation_mm[t] = <<-30>>
        /\ result[t].precipitation_fall = <<"", <<0>>, <<0>> >>

\* C13: the amount in a result of predict_precipitation has one digit after
\* the point and is the tenth nearest to the clamped output, at most 0.05
\* away from it; 5.26 gives "5.3".
C13_OneDecimalRounded ==
    \A t \in Threads :
        Returned(t, "predict_precipitation") =>
            LET f == result[t].precipitation_fall
                raw == precipitation_mm[t][1]
                amount == IF raw < 0 THEN 0 ELSE raw
                shown == 100 * DigitsValue(f[2]) + 10 * f[3][1]
            IN /\ Len(f[3]) = 1
               /\ shown - amount <= 5
               /\ amount - shown <= 5
               /\ raw = 526 => f = <<"", <<5>>, <<3>> >>

\* the raw output 5.26 has come out as "5.3"
C13_RoundedUp ==
    \E t \in Threads :
        /\ Returned(t, "predict_precipitation")
        /\ precipitation_mm[t] = <<526>>
        /\ result[t].precipitation_fall = <<"", <<5>>, <<3>> >>

----------------------------------------------------------------------------
(* The feature vectors *)

\* the encoder of predictor f has made a vector for thread t
Encoded(t, f) == func[t] = f /\ X[t] /= <<>>

\* the observation of thread t has a number for the measurement k
Measured(t, k) == k \in DOMAIN weather_data[t] /\ weather_data[t][k] /= None

\* the order of the rain features the scaler and the model were fitted on
RainSchema ==
    <<"temperature_2m_max", "temperature_2m_min", "apparent_temperature_max",
      "apparent_temperature_min", "daylight_duration", "shortwave_radiation_sum",
      "et0_fao_evapotranspiration", "wind_speed_10m_max", "wind_gusts_10m_max",
      "wind_direction_sin", "wind_direction_cos", "is_weather_code_63_or_65",
      "season_sin", "season_cos">>

\* the order of the precipitation features
PrecipitationSchema ==
    <<"precipitation_sum", "precipitation_hours", "temperature_2m_max",
      "temperature_2m_min", "apparent_temperature_max", "apparent_temperature_min",
      "sunshine_duration", "daylight_duration", "wind_direction_sin",
      "wind_direction_cos", "is_weather_code_63_or_65", "season_sin", "season_cos">>

\* the encoded feature of that name for thread t
Derived(t, name) ==
    CASE name = "wind_direction_sin" -> wind_direction_sin(weather_data[t])
      [] name = "wind_direction_cos" -> wind_direction_cos(weather_data[t])
      [] name = "is_weather_code_63_or_65" -> is_weather_code_63_or_65(weather_data[t])
      [] name = "season_sin" -> season_sin(date_obj[t])
      [] name = "season_cos" -> season_cos(date_obj[t])

\* the vector of thread t has the length of the schema and at every position
\* the measured value, or the encoded feature, of the name at that position
FollowsSchema(t, schema) ==
    /\ Len(X[t]) = Len(schema)
    /\ \A i \in 1..Len(schema) :
          IF schema[i] \in MeasurementKeys
          THEN Measured(t, schema[i]) => X[t][i] = weather_data[t][schema[i]]
          ELSE X[t][i] = Derived(t, schema[i])

\* C14: the vector of prepare_rain_features has 14 values, in the order max
\* temperature, min temperature, max and min apparent temperature, daylight
\* duration, radiation sum, evapotranspiration, max wind speed, max gust,
\* wind sine, wind cosine, heavy-rain indicator, season sine, season cosine,
\* each position holding the value of its own measurement.
C14_RainFeatureOrder ==
    \A t \in Threads :
        Encoded(t, "predict_rain") =>
            /\ Len(X[t]) = 14
            /\ FollowsSchema(t, RainSchema)

\* a rain vector made of an observation with all its measurements
C14_FullRainVector ==
    \E t \in Threads :
        /\ Encoded(t, "predict_rain")
        /\ \A k \in MeasurementKeys : Measured(t, k)
        /\ X[t][5] = <<43200>>
        /\ X[t][6] = <<16>>
        /\ X[t][14] = season_cos(date_obj[t])

\* C15: the vector of prepare_precipitation_features has 13 values, in the
\* order precipitation sum, precipitation hours, max and min temperature, max
\* and min apparent temperature, sunshine duration, daylight duration, wind
\* sine, wind cosine, heavy-rain indicator, season sine, season cosine; the
\* radiation sum and the evapotranspiration are at no position.
C15_PrecipitationFeatureOrder ==
    \A t \in Threads :
        Encoded(t, "predict_precipitation") =>
            /\ Len(X[t]) = 13
            /\ FollowsSchema(t, PrecipitationSchema)
            /\ \A k \in {"shortwave_radiation_sum", "et0_fao_evapotranspiration"} :
                  Measured(t, k) =>
                     \A i \in 1..Len(X[t]) : X[t][i] /= weather_data[t][k]

\* a precipitation vector made of an observation with all its measurements
C15_FullPrecipitationVector ==
    \E t \in Threads :
        /\ Encoded(t, "predict_precipitation")
        /\ \A k \in MeasurementKeys : Measured(t, k)
        /\ X[t][1] = <<2>>
        /\ X[t][2] = <<3>>
        /\ X[t][7] = <<28800>>

\* the schema of the encoder thread t has run
SchemaOf(t) == IF func[t] = "predict_rain" THEN RainSchema ELSE PrecipitationSchema

\* C16: in the vector of either encoder no position holds a null, and the
\* position of a measurement that the observation lacks, or has as null,
\* holds 0.
C16_MissingIsZero ==
    \A t \in Threads :
        X[t] /= <<>> =>
            \A i \in 1..Len(X[t]) :
                /\ X[t][i] /= None
                /\ (SchemaOf(t)[i] \in MeasurementKeys /\ ~Measured(t, SchemaOf(t)[i]))
                      => X[t][i] = <<0>>

\* the position of the feature of that name in the vector of thread t
PositionOf(t, name) == CHOOSE i \in 1..Len(SchemaOf(t)) : SchemaOf(t)[i] = name

\* C17: in the vector of either encoder the heavy-rain indicator is 1 when the
\* observation has the weather code 63 or 65, and 0 when it has another
\* code, a null code or no code.
C17_HeavyRainIndicator ==
    \A t \in Threads :
        X[t] /= <<>> =>
            X[t][PositionOf(t, "is_weather_code_63_or_65")] =
                IF /\ Measured(t, "weather_code")
                   /\ weather_data[t]["weather_code"] \in {<<63>>, <<65>>}
                THEN <<1>> ELSE <<0>>

\* the code 65 has set the indicator of a precipitation vector
C17_Code65Flagged ==
    \E t \in Threads :
        /\ Encoded(t, "predict_precipitation")
        /\ Measured(t, "weather_code")
        /\ weather_data[t]["weather_code"] = <<65>>
        /\ X[t][11] = <<1>>

\* C18: in the vector of either encoder a wind direction of 0 degrees and one
\* of 360 degrees give the same sine and cosine, to the thousandth, and so
\* does a wind direction that is null or absent: sine 0 and cosine 1.
C18_WindPeriodic ==
    \A t \in Threads :
        (/\ X[t] /= <<>>
         /\ Measured(t, "wind_direction_10m_dominant") =>
               weather_data[t]["wind_direction_10m_dominant"] \in {<<0>>, <<360>>})
        => /\ X[t][PositionOf(t, "wind_direction_sin")] = <<0>>
           /\ X[t][PositionOf(t, "wind_direction_cos")] = <<1000>>

\* a wind direction of 360 degrees has been encoded in a rain vector
C18_FullTurn ==
    \E t \in Threads :
        /\ Encoded(t, "predict_rain")
        /\ Measured(t, "wind_direction_10m_dominant")
        /\ weather_data[t]["wind_direction_10m_dominant"] = <<360>>
        /\ X[t][10] = <<0>>
        /\ X[t][11] = <<1000>>

----------------------------------------------------------------------------
(* Dates that are not in the past *)

\* the call of thread t, made on valid artifact files, has ended, and its
\* date string is well formed
Ended(t) == pc[t] = "done" /\ WellFormed(date_str[t]) /\ call_clean[t]

\* C19: a call with a well-formed date after today_sydney ends in the
\* ValueError of the future-date check, without a call of scaler.transform
\* or of the model and without a request to the weather source.
C19_FutureDateRejected ==
    \A t \in Threads :
        (Ended(t) /\ DateAfter(strptime(date_str[t]), today_sydney)) =>
            /\ outcome[t] = "ValueError"
            /\ io_done[t].model_calls = 0
            /\ io_done[t].http = 0

\* C20: a call with the date of today_sydney ends in ValueError.
C20_TodayRejected ==
    \A t \in Threads :
        (Ended(t) /\ strptime(date_str[t]) = today_sydney) => outcome[t] = "ValueError"

----------------------------------------------------------------------------
(* Errors and the order of the steps *)

\* the date string of thread t is malformed, or names a day after today_sydney
InvalidDate(t) ==
    \/ ~WellFormed(date_str[t])
    \/ DateAfter(strptime(date_str[t]), today_sydney)

\* C21: a call that ends in the ValueError of a malformed or future date has
\* read no artifact file from storage and has sent no request.
C21_InvalidInputBeforeIO ==
    \A t \in Threads :
        (pc[t] = "done" /\ outcome[t] = "ValueError" /\ InvalidDate(t)) =>
            /\ io_done[t].storage = 0
            /\ io_done[t].http = 0

\* the request of thread t failed on the way, or came back with a status
\* that is not a success
UpstreamFailed(t) ==
    \/ response[t].error \in {"Timeout", "ConnectionError", "Exception"}
    \/ response[t].error = "none" /\ response[t].status_code /= 200

\* C22: a call whose request to the weather source failed, by a connection
\* failure, a timeout or a non-success status, ends in ConnectionError.
C22_UpstreamIsConnectionError ==
    \A t \in Threads :
        (pc[t] = "done" /\ UpstreamFailed(t)) => outcome[t] = "ConnectionError"

----------------------------------------------------------------------------
(* The endpoints rain_prediction and precipitation_prediction of main.py *)

\* main.py lines 186-223 and 269-306: the status of the response to a request
\* whose call of predict_* ended with e
status_code(e) ==
    IF e = "returned" THEN 200
    ELSE IF e = "ValueError" THEN 400             \* except ValueError
    ELSE IF e = "FileNotFoundError" THEN 500      \* except FileNotFoundError
    ELSE 500                                      \* except Exception

\* C23: the endpoints answer an invalid date with 400, a load error with 500
\* and a failure of the weather source with 502 or 503.
C23_StatusMapping ==
    \A t \in Threads :
        pc[t] = "done" =>
            /\ (outcome[t] = "ValueError" /\ InvalidDate(t)) => status_code(outcome[t]) = 400
            /\ outcome[t] \in LoadErrors => status_code(outcome[t]) = 500
            /\ UpstreamFailed(t) => status_code(outcome[t]) \in {502, 503}

----------------------------------------------------------------------------
(* The shape of the results *)

\* a date string in the form YYYY-MM-DD with its zeros
ZeroPadded(s) == Len(s) = 3 /\ Len(s[1]) = 4 /\ Len(s[2]) = 2 /\ Len(s[3]) = 2

\* C24: every date field of a result, input_date and date of predict_rain,
\* input_date, start_date and end_date of predict_precipitation, is written
\* YYYY-MM-DD with its zeros, whatever the accepted input string.
C24_ZeroPaddedDates ==
    \A t \in Threads :
        /\ Returned(t, "predict_rain") =>
              ZeroPadded(result[t].input_date) /\ ZeroPadded(result[t].date)
        /\ Returned(t, "predict_precipitation") =>
              /\ ZeroPadded(result[t].input_date)
              /\ ZeroPadded(result[t].start_date)
              /\ ZeroPadded(result[t].end_date)

----------------------------------------------------------------------------
(* A source without measurements *)

\* the source answered thread t, and its answer has a number for no
\* measurement: no daily section, only empty lists, or only nulls
NoMeasurements(t) ==
    /\ response[t].error = "none"
    /\ response[t].status_code = 200
    /\ response[t].json_ok
    /\ \/ ~response[t].has_daily
       \/ \A k \in DOMAIN response[t].daily \ {"time"} :
             \/ response[t].daily[k] = <<>>
             \/ response[t].daily[k][1] = None

\* C25: when the source returns no measurement (no daily section, only empty
\* lists, or a null for every measurement) the fetch fails with the no-data
\* error, and no observation is passed to an encoder.
C25_NoDataFails ==
    \A t \in Threads :
        (pc[t] = "done" /\ NoMeasurements(t)) =>
            /\ outcome[t] = "ValueError"
            /\ weather_data[t] = <<>>
            /\ X[t] = <<>>

----------------------------------------------------------------------------
(* The order of the steps *)

\* C26: in predict_rain and predict_precipitation the date is parsed first,
\* then the loader is called, then the weather is fetched, then the features
\* are built, scaled and given to the model: a call with a malformed date
\* touches no artifact file and sends no request, a call that ends in a load
\* error has sent no request, and the model is called only after a fetch.
C26_StepOrder ==
    \A t \in Threads :
        /\ (pc[t] /= "idle" /\ ~WellFormed(date_str[t])) =>
              /\ io_done[t].storage = 0
              /\ io_done[t].loads = 0
              /\ io_done[t].http = 0
              /\ io_done[t].model_calls = 0
        /\ (pc[t] = "done" /\ outcome[t] \in LoadErrors) =>
              /\ io_done[t].http = 0
              /\ io_done[t].fetched = "no"
              /\ io_done[t].model_calls = 0
        /\ io_done[t].http > 0 => pc[t] = "done"
        /\ io_done[t].model_calls > 0 =>
              io_done[t].http = 1 /\ io_done[t].fetched /= "no"

\* a call that read artifact files, failed in the loader and sent no request
C26_LoadErrorBeforeFetch ==
    \E t \in Threads :
        /\ pc[t] = "done"
        /\ outcome[t] \in LoadErrors
        /\ io_done[t].storage > 0
        /\ io_done[t].http = 0

----------------------------------------------------------------------------
(* No retries *)

\* C27: nothing is retried inside a call of predict_rain or
\* predict_precipitation: the call makes at most one load attempt, reading
\* each artifact file at most once, and sends at most one request to the
\* weather source; a call that ends in a load error made one attempt at most,
\* and a call whose request failed sent exactly that one request.
C27_NothingRetried ==
    \A t \in Threads :
        /\ io_done[t].loads <= 1
        /\ io_done[t].storage <= 2 * Cardinality(TaskPaths(TaskOf(func[t])))
        /\ io_done[t].http <= 1
        /\ (pc[t] = "done" /\ UpstreamFailed(t)) => io_done[t].http = 1

\* a call whose one request failed
C27_OneFailedRequest ==
    \E t \in Threads :
        /\ pc[t] = "done"
        /\ outcome[t] = "ConnectionError"
        /\ response[t].error = "Timeout"
        /\ io_done[t].http = 1

----------------------------------------------------------------------------
(* The loaders of app/predictor.py, lines 13-42.  They read the same files  *)
(* and keep their own globals; there is no try block around the two loads.  *)
(* The calls are taken one at a time.                                       *)

\* the exception of joblib.load on a file it cannot read
joblib_error(p) == IF fs[p] = MISSING THEN "FileNotFoundError" ELSE "Exception"

PredictorFrame ==
    <<Globals, CallArgs, Locals, fs, today_sydney, file_changes, ever_invalid,
      call_clean, pc, loaded, outcome, joblib_loads, served, fail_cause,
      peer_failed, io_done>>

\* a loader of predictor.py: the globals g_model and g_preprocessor, the
\* files model_path and scaler_path
\*     if g_model is None:
\*         g_model = joblib.load(model_path)
\*         g_preprocessor = joblib.load(scaler_path)
\*     return g_model, g_preprocessor
predictor_load(f, g_model, g_preprocessor, model_path, scaler_path) ==
    /\ calls < MaxCalls
    /\ calls' = calls + 1
    /\ IF predictor[g_model] /= None
       THEN /\ predictor_call' = [func |-> f, outcome |-> "returned",
                                  model |-> predictor[g_model],
                                  preprocessor |-> predictor[g_preprocessor]]
            /\ UNCHANGED predictor
       ELSE IF ~joblib_ok(model_path)
       THEN /\ predictor_call' = [func |-> f, outcome |-> joblib_error(model_path),
                                  model |-> None, preprocessor |-> None]
            /\ UNCHANGED predictor
       ELSE IF ~joblib_ok(scaler_path)
       THEN /\ predictor' = [predictor EXCEPT ![g_model] = joblib_load(model_path)]
            /\ predictor_call' = [func |-> f, outcome |-> joblib_error(scaler_path),
                                  model |-> None, preprocessor |-> None]
       ELSE /\ predictor' = [predictor EXCEPT
                                ![g_model] = joblib_load(model_path),
                                ![g_preprocessor] = joblib_load(scaler_path)]
            /\ predictor_call' = [func |-> f, outcome |-> "returned",
                                  model |-> joblib_load(model_path),
                                  preprocessor |-> joblib_load(scaler_path)]
    /\ UNCHANGED PredictorFrame

\* predictor.py lines 20-31
load_rain_model ==
    predictor_load("load_rain_model", "_rain_model", "_rain_preprocessor",
                   RAIN_MODEL_PATH, RAIN_SCALER_PATH)

\* predictor.py lines 34-42
load_precip_model ==
    predictor_load("load_precip_model", "_precip_model", "_precip_preprocessor",
                   PRECIP_MODEL_PATH, PRECIP_SCALER_PATH)

\* the loaders of predictor.py are called while the files may change
NextPredictor ==
    \/ load_rain_model
    \/ load_precip_model
    \/ \E p \in Paths : \E c \in Contents(p) : ChangeFile(p, c)

SpecPredictor == Init /\ [][NextPredictor]_vars

\* C28: in predictor.py, after any sequence of calls of load_rain_model and
\* load_precip_model, failed ones included, a cached model comes with its
\* cached preprocessor: a failed scaler load leaves no model in the cache
\* beside a None preprocessor, and no call returns a model with a None
\* preprocessor.
C28_NoPartialPair ==
    /\ predictor._rain_model /= None => predictor._rain_preprocessor /= None
    /\ predictor._precip_model /= None => predictor._precip_preprocessor /= None
    /\ (predictor_call.outcome = "returned" /\ predictor_call.model /= None) =>
           predictor_call.preprocessor /= None

====
